---------------------------- MODULE Spec2Model ----------------------------
(***************************************************************************)
(* libfix32math: 32-bit fixed point scaling, multiplication, inverse       *)
(* square root and atan2 (fix32math.h, src/fix32math.c).                   *)
(*                                                                         *)
(* TLC's integers are 32 bits wide, the library computes in uint32_t,      *)
(* int64_t and uint64_t.  Machine integers are therefore modelled exactly: *)
(* a natural number is the little-endian sequence of its base-256 digits   *)
(* without leading zero digits (0 is << >>), an integer is a record        *)
(* [neg, mag] with mag such a natural number (zero has neg = FALSE).       *)
(* Widths are applied where the C types apply them: U32/U64 reduce modulo  *)
(* 2^32/2^64, S32/S64 to the two's complement range.                       *)
(***************************************************************************)
EXTENDS Integers, Sequences, FiniteSets, TLC

VARIABLES
    pc,      \* where the call being followed stands
    build,   \* how the build resolves what the C standard leaves undefined
    arg,     \* the arguments of the call
    atan,    \* the local variables of fix32_atan2
    isq,     \* the parameters and local variables of fix32_invsqrt
    hist,    \* the call of fix32_invsqrt made before this one, if any
    ret      \* what the call returned

vars == <<pc, build, arg, atan, isq, hist, ret>>

---------------------------------------------------------------------------
(* Natural numbers of any size                                             *)

NDigit(x, i) == IF i >= 1 /\ i <= Len(x) THEN x[i] ELSE 0

RECURSIVE NNormLen(_, _)
NNormLen(x, k) == IF k = 0 THEN 0
                  ELSE IF x[k] # 0 THEN k ELSE NNormLen(x, k - 1)

NNorm(x) == SubSeq(x, 1, NNormLen(x, Len(x)))

RECURSIVE NFromInt(_)
NFromInt(k) == IF k = 0 THEN << >> ELSE <<k % 256>> \o NFromInt(k \div 256)

RECURSIVE NToIntFrom(_, _)
NToIntFrom(x, i) == IF i > Len(x) THEN 0 ELSE x[i] + 256 * NToIntFrom(x, i + 1)

NToInt(x) == NToIntFrom(x, 1)

RECURSIVE NAddFrom(_, _, _, _)
NAddFrom(x, y, i, c) ==
    IF i > Len(x) /\ i > Len(y)
    THEN (IF c = 0 THEN << >> ELSE <<c>>)
    ELSE LET s == NDigit(x, i) + NDigit(y, i) + c
         IN  <<s % 256>> \o NAddFrom(x, y, i + 1, s \div 256)

NAdd(x, y) == NAddFrom(x, y, 1, 0)

RECURSIVE NLessFrom(_, _, _)
NLessFrom(x, y, i) == IF i = 0 THEN FALSE
                      ELSE IF x[i] # y[i] THEN x[i] < y[i]
                      ELSE NLessFrom(x, y, i - 1)

NLess(x, y) == IF Len(x) # Len(y) THEN Len(x) < Len(y)
               ELSE NLessFrom(x, y, Len(x))

NLeq(x, y) == ~NLess(y, x)

RECURSIVE NSubFrom(_, _, _, _)
NSubFrom(x, y, i, b) ==
    IF i > Len(x) THEN << >>
    ELSE LET d == x[i] - NDigit(y, i) - b
         IN  <<d % 256>> \o NSubFrom(x, y, i + 1, IF d < 0 THEN 1 ELSE 0)

\* x - y for x >= y
NSub(x, y) == NNorm(NSubFrom(x, y, 1, 0))

RECURSIVE NColSum(_, _, _, _)
NColSum(x, y, k, i) ==
    IF i > k \/ i > Len(x) THEN 0
    ELSE NDigit(x, i) * NDigit(y, k + 1 - i) + NColSum(x, y, k, i + 1)

RECURSIVE NMulFrom(_, _, _, _)
NMulFrom(x, y, k, c) ==
    IF k > Len(x) + Len(y) THEN << >>
    ELSE LET s == NColSum(x, y, k, 1) + c
         IN  <<s % 256>> \o NMulFrom(x, y, k + 1, s \div 256)

NMul(x, y) == NNorm(NMulFrom(x, y, 1, 0))

RECURSIVE Pow2Int(_)
Pow2Int(r) == IF r = 0 THEN 1 ELSE 2 * Pow2Int(r - 1)

\* 2^n
NPow2(n) == [i \in 1..((n \div 8) + 1) |->
                IF i = (n \div 8) + 1 THEN Pow2Int(n % 8) ELSE 0]

\* floor(x / 2^n)
NShr(x, n) ==
    LET q == n \div 8
        r == Pow2Int(n % 8)
    IN  IF Len(x) <= q THEN << >>
        ELSE NNorm([i \in 1..(Len(x) - q) |->
                 (x[i + q] \div r) + (NDigit(x, i + q + 1) % r) * (256 \div r)])

\* x * 2^n
NShl(x, n) ==
    LET q == n \div 8
        r == Pow2Int(n % 8)
    IN  NNorm([i \in 1..(Len(x) + q + 1) |->
                 ((NDigit(x, i - q) * r) % 256) + ((NDigit(x, i - q - 1) * r) \div 256)])

\* x mod 2^n
NMod2(x, n) ==
    LET q == n \div 8
        r == Pow2Int(n % 8)
    IN  IF Len(x) <= q THEN x
        ELSE NNorm([i \in 1..(q + 1) |-> IF i <= q THEN x[i] ELSE x[i] % r])

RECURSIVE ByteAnd(_, _, _)
ByteAnd(p, q, k) ==
    IF k = 0 THEN 0
    ELSE (IF p % 2 = 1 /\ q % 2 = 1 THEN 1 ELSE 0)
         + 2 * ByteAnd(p \div 2, q \div 2, k - 1)

\* bitwise and
NAnd(x, y) ==
    LET m == IF Len(x) < Len(y) THEN Len(x) ELSE Len(y)
    IN  NNorm([i \in 1..m |-> ByteAnd(x[i], y[i], 8)])

---------------------------------------------------------------------------
(* Integers of any size                                                    *)

Z(n, m) == [neg |-> n /\ m # << >>, mag |-> m]

ZNat(m) == Z(FALSE, m)

\* a TLC integer as an integer of the model
I(k) == IF k < 0 THEN Z(TRUE, NAdd(NFromInt(0 - (k + 1)), <<1>>))
        ELSE ZNat(NFromInt(k))

ZNeg(z) == Z(~z.neg, z.mag)

ZAdd(x, y) ==
    IF x.neg = y.neg THEN Z(x.neg, NAdd(x.mag, y.mag))
    ELSE IF NLess(x.mag, y.mag) THEN Z(y.neg, NSub(y.mag, x.mag))
    ELSE Z(x.neg, NSub(x.mag, y.mag))

ZSub(x, y) == ZAdd(x, ZNeg(y))

ZMul(x, y) == Z(x.neg # y.neg, NMul(x.mag, y.mag))

ZLess(x, y) ==
    IF x.neg # y.neg THEN x.neg
    ELSE IF x.neg THEN NLess(y.mag, x.mag) ELSE NLess(x.mag, y.mag)

ZLeq(x, y) == ~ZLess(y, x)

ZPow2(n) == ZNat(NPow2(n))

\* floor(z / 2^n): the arithmetic right shift
ZShr(z, n) ==
    IF z.neg THEN Z(TRUE, NShr(NAdd(z.mag, NSub(NPow2(n), <<1>>)), n))
    ELSE ZNat(NShr(z.mag, n))

\* z mod 2^w, in 0 .. 2^w - 1: the w-bit pattern of z
ZBits(z, w) ==
    LET m == NMod2(z.mag, w)
    IN  IF z.neg /\ m # << >> THEN NSub(NPow2(w), m) ELSE m

\* the w-bit two's complement value with the bit pattern p
ZOfBits(p, w) ==
    IF NLess(p, NPow2(w - 1)) THEN ZNat(p) ELSE Z(TRUE, NSub(NPow2(w), p))

---------------------------------------------------------------------------
(* The C integer types (stdint.h) and the builds                           *)

\* uint32_t, uint64_t: arithmetic modulo 2^32, 2^64
U32(m) == NMod2(m, 32)

U64(m) == NMod2(m, 64)

\* conversion to int32_t, int64_t: the low bits, read as two's complement
S32(z) == ZOfBits(ZBits(z, 32), 32)

S64(z) == ZOfBits(ZBits(z, 64), 64)

InS32(z) == ZLeq(ZNeg(ZPow2(31)), z) /\ ZLess(z, ZPow2(31))

InS64(z) == ZLeq(ZNeg(ZPow2(63)), z) /\ ZLess(z, ZPow2(63))

\* a 32-bit constant written as its two 16-bit halves
Hex32(hi, lo) == NNorm(<<lo % 256, lo \div 256, hi % 256, hi \div 256>>)

(***************************************************************************)
(* The code leaves three things to the build: a signed addition that       *)
(* overflows (fix32math.h:68, src/fix32math.c:177), and the shift          *)
(* 1LL << (n - 1) for n = 0 (fix32math.h:68).  A build wraps the overflow  *)
(* or, compiled with -ftrapv, aborts on it; the shift by -1 it computes    *)
(* with the count taken modulo 64 (a 64-bit shifter), as 0 (a shifter that *)
(* clears on an oversized count), or from two 32-bit halves with the count *)
(* taken modulo 32 (a 32-bit target, libgcc's __ashldi3).                  *)
(***************************************************************************)
Builds == {"mod64", "zero", "mod32", "trapv"}

\* the outcome of an operation: its value, or the abort of the program
Ok(v) == [trap |-> FALSE, val |-> v]

Trap == [trap |-> TRUE, val |-> Z(FALSE, << >>)]

\* x + y in a signed type of w bits
AddS(x, y, w, b) ==
    LET s == ZAdd(x, y)
        r == ZOfBits(ZBits(s, w), w)
    IN  IF r = s THEN Ok(s)
        ELSE IF b = "trapv" THEN Trap ELSE Ok(r)

\* 1LL << c, for -1 <= c <= 63
Shl1LL(c, b) ==
    IF c >= 0 /\ c <= 62 THEN ZPow2(c)
    ELSE IF c = 63 THEN ZNeg(ZPow2(63))
    ELSE IF b = "zero" THEN ZNat(<< >>)
    ELSE IF b = "mod32" THEN ZPow2(c % 32)
    ELSE ZOfBits(NPow2(c % 64), 64)

---------------------------------------------------------------------------
(* fix32math.h: the scale functions                                        *)

\* FIX32_MATH_SCALE_FUNCTION(DTYPE, NAME_SUFFIX, ADD_TO_VAL_BESIDE_HALF):
\*     return (val + ((1LL << (n - 1)) ADD_TO_VAL_BESIDE_HALF)) >> n;
\* w is the width of DTYPE, add the value of ADD_TO_VAL_BESIDE_HALF; the
\* expression is computed in long long and converted to DTYPE.
FIX32_MATH_SCALE_FUNCTION(w, val, n, add, b) ==
    LET half == AddS(Shl1LL(n - 1, b), add, 64, b)
        sum  == IF half.trap THEN Trap ELSE AddS(val, half.val, 64, b)
    IN  IF sum.trap THEN Trap
        ELSE Ok(ZOfBits(ZBits(ZShr(sum.val, n), w), w))

fix32_scale_rhu_32(val, n, b) ==
    FIX32_MATH_SCALE_FUNCTION(32, val, n, I(0), b)

fix32_scale_rhd_32(val, n, b) ==
    FIX32_MATH_SCALE_FUNCTION(32, val, n, I(-1), b)

fix32_scale_rhaz_32(val, n, b) ==
    FIX32_MATH_SCALE_FUNCTION(32, val, n, ZShr(val, 31), b)

fix32_scale_rhtz_32(val, n, b) ==
    FIX32_MATH_SCALE_FUNCTION(32, val, n, ZSub(I(-1), ZShr(val, 31)), b)

fix32_scale_rhu_64(val, n, b) ==
    FIX32_MATH_SCALE_FUNCTION(64, val, n, I(0), b)

fix32_scale_rhd_64(val, n, b) ==
    FIX32_MATH_SCALE_FUNCTION(64, val, n, I(-1), b)

fix32_scale_rhaz_64(val, n, b) ==
    FIX32_MATH_SCALE_FUNCTION(64, val, n, ZShr(val, 63), b)

fix32_scale_rhtz_64(val, n, b) ==
    FIX32_MATH_SCALE_FUNCTION(64, val, n, ZSub(I(-1), ZShr(val, 63)), b)

fix32_scale(mode, w, val, n, b) ==
    CASE mode = "rhu"  /\ w = 32 -> fix32_scale_rhu_32(val, n, b)
      [] mode = "rhd"  /\ w = 32 -> fix32_scale_rhd_32(val, n, b)
      [] mode = "rhaz" /\ w = 32 -> fix32_scale_rhaz_32(val, n, b)
      [] mode = "rhtz" /\ w = 32 -> fix32_scale_rhtz_32(val, n, b)
      [] mode = "rhu"  /\ w = 64 -> fix32_scale_rhu_64(val, n, b)
      [] mode = "rhd"  /\ w = 64 -> fix32_scale_rhd_64(val, n, b)
      [] mode = "rhaz" /\ w = 64 -> fix32_scale_rhaz_64(val, n, b)
      [] mode = "rhtz" /\ w = 64 -> fix32_scale_rhtz_64(val, n, b)

---------------------------------------------------------------------------
(* fix32math.h: fix32_mul                                                  *)

FIX32_MATH_MUL_ROUND_FUNC(val, n, b) == fix32_scale_rhaz_64(val, n, b)

\* the mask one bit short, (-1LL << 32): the upper 32 bits only
OverflowMask32 == NSub(NPow2(64), NPow2(32))

\* (-1LL << 31): the upper 33 bits of a 64-bit word
OverflowMask == NSub(NPow2(64), NPow2(31))

\* (prod & (-1LL << 31)) != ((prod >> 32) & (-1LL << 31))
OverflowTest(prod) ==
    NAnd(ZBits(prod, 64), OverflowMask)
        # NAnd(ZBits(ZShr(prod, 32), 64), OverflowMask)

\* fix32_mul(a, b, n), compiled with (action = TRUE) or without
\* FIX32_MATH_MUL_OVERFLOW_ACTION: the value returned, the 64-bit prod, and
\* whether the overflow action was executed
fix32_mul(a, b, n, action, bld) ==
    LET prod == FIX32_MATH_MUL_ROUND_FUNC(ZMul(a, b), n, bld)
    IN  IF prod.trap
        THEN [trap |-> TRUE, val |-> I(0), prod |-> I(0), overflow |-> FALSE]
        ELSE [trap |-> FALSE, val |-> S32(prod.val), prod |-> prod.val,
              overflow |-> action /\ OverflowTest(prod.val)]

---------------------------------------------------------------------------
(* src/fix32math.c: fix32_invsqrt                                          *)

FIX32_INVSQRT_NEWTON_ITERS == 2

\* the portable bit scan (the #else branch): val_copy is masked and
\* msb_even accumulated test by test
msb_step(st, mask, inc) ==
    IF NAnd(st.val_copy, mask) # << >>
    THEN [val_copy |-> NAnd(st.val_copy, mask), msb_even |-> st.msb_even + inc]
    ELSE st

\* the scan with the last test against 0xAAAAAAAA, the odd bits
msb_scan_odd_bits(val) ==
    LET s0 == [val_copy |-> val, msb_even |-> 0]
        s1 == msb_step(s0, Hex32(\hFFFF, \h0000), 16)
        s2 == msb_step(s1, Hex32(\hFF00, \hFF00), 8)
        s3 == msb_step(s2, Hex32(\hF0F0, \hF0F0), 4)
    IN  IF NAnd(s3.val_copy, Hex32(\hAAAA, \hAAAA)) # << >>
        THEN s3.msb_even + 2 ELSE s3.msb_even

msb_scan(val) ==
    LET s0 == [val_copy |-> val, msb_even |-> 0]
        s1 == msb_step(s0, Hex32(\hFFFF, \h0000), 16)
        s2 == msb_step(s1, Hex32(\hFF00, \hFF00), 8)
        s3 == msb_step(s2, Hex32(\hF0F0, \hF0F0), 4)
    IN  IF NAnd(s3.val_copy, Hex32(\hCCCC, \hCCCC)) # << >>
        THEN s3.msb_even + 2 ELSE s3.msb_even

\* int odd = *scale & 1; val = (val + odd) >> odd;
parity_val(val, scale) ==
    LET odd == scale % 2
    IN  NShr(U32(NAdd(val, NFromInt(odd))), odd)

\* uint32_t a = val << (30 - msb_even);
mantissa(val, msb_even) == U32(NShl(val, 30 - msb_even))

\* the exponent with its sign slipped: (*scale - msb_even) >> 1
invsqrt_n_negated(msb_even, scale) == (scale - msb_even) \div 2

\* int n = (msb_even - *scale) >> 1; both are even
invsqrt_n(msb_even, scale) == (msb_even - scale) \div 2

\* (uint32_t)(((uint64_t)x * y + (1uLL<<32)) >> 33)
mul_hi(x, y) == U32(NShr(U64(NAdd(NMul(x, y), NPow2(32))), 33))

frac_11_432 == Hex32(\h684B, \hDA13)

frac_19_72 == Hex32(\h871C, \h71C7)

frac_137_144 == Hex32(\h3CE3, \h8E39)

frac_185_108 == Hex32(\h0DB4, \h25ED)

\* x - y in uint32_t
SubU32(x, y) == U32(NSub(NAdd(x, NPow2(32)), y))

\* the cubic interpolation, scaled up to 2^30 (lines 124-138)
cubic(a) ==
    LET a_squ == mul_hi(a, a)
        a_cub == mul_hi(a, a_squ)
        res   == SubU32(SubU32(U32(NAdd(frac_185_108, mul_hi(frac_19_72, a_squ))),
                               mul_hi(frac_137_144, a)),
                        mul_hi(frac_11_432, a_cub))
    IN  U32(NShl(res, 3))

_1p5 == NShl(<<3>>, 24)

\* the loop body with a * res^2 not halved: the product shifted by 32
newton_step_not_halved(a, res) ==
    LET res_squ     == mul_hi(res, res)
        a_res_squ   == U32(NShr(U64(NAdd(NMul(a, res_squ), NPow2(32))), 32))
    IN  U32(NShr(U64(NAdd(NMul(res, SubU32(_1p5, a_res_squ)), NPow2(24))), 25))

\* one pass of the loop body (lines 146-159)
newton_step(a, res) ==
    LET res_squ        == mul_hi(res, res)
        half_a_res_squ == mul_hi(a, res_squ)
    IN  U32(NShr(U64(NAdd(NMul(res, SubU32(_1p5, half_a_res_squ)), NPow2(24))), 25))

---------------------------------------------------------------------------
(* src/fix32math.c: fix32_atan2(int32_t y, int32_t x, int scale)           *)

pi_half == ZNat(Hex32(\h1921, \hFB54))

pi == ZNat(Hex32(\h3243, \hF6A9))

frac_28125 == ZNat(Hex32(\h4800, \h0000))

\* (v >= 0) ? v : -v
abs32(v, b) == IF v.neg THEN AddS(I(0), ZNeg(v), 32, b) ELSE Ok(v)

\* lines 180-184
octant_of(x, y, abs_x, abs_y) ==
    LET o0 == IF ZLess(abs_y, abs_x) THEN 0 ELSE 1
        o1 == IF x.neg THEN 3 - o0 ELSE o0
    IN  IF y.neg THEN 7 - o1 ELSE o1

\* lines 197-208: the product inside the denominator
atan2_small(octant, sq_x, sq_y, b) ==
    IF octant \in {7, 0, 3, 4}
    THEN fix32_mul(sq_y, frac_28125, 32, FALSE, b)
    ELSE fix32_mul(sq_x, frac_28125, 32, FALSE, b)

\* lines 197-208: the denominator, from a square and that product
atan2_denum(octant, sq_x, sq_y, small, b) ==
    IF octant \in {7, 0, 3, 4}
    THEN AddS(sq_x, small, 32, b)
    ELSE AddS(sq_y, small, 32, b)

\* line 216
atan2_shift(sq_scale, den_scale) == sq_scale + (2 * den_scale - 32) - 28

\* lines 218-239: the last product and the octant's offset
atan2_result(octant, m, b) ==
    CASE octant \in {7, 0} -> Ok(m)
      [] octant \in {1, 2} -> AddS(pi_half, ZNeg(m), 32, b)
      [] octant = 3        -> AddS(pi, m, 32, b)
      [] octant = 4        -> AddS(ZNeg(pi), m, 32, b)
      [] octant \in {5, 6} -> AddS(ZNeg(pi_half), ZNeg(m), 32, b)

---------------------------------------------------------------------------
(* The calls followed                                                      *)

NoRet == [none |-> TRUE]

NoAtan == [none |-> TRUE]

NoHist == [active |-> FALSE]

\* the frame of fix32_invsqrt(val, &scale) on entry
IsqCall(caller, val, scale, iters) ==
    [caller |-> caller, val |-> val, scale |-> scale, iters |-> iters,
     msb_even |-> 0, a |-> << >>, n |-> 0, res |-> << >>, i |-> 0]

NoIsq == IsqCall("none", << >>, 0, 0)

INT32_MAX == ZSub(ZPow2(31), I(1))

INT32_MIN == ZNeg(ZPow2(31))

INT64_MAX == ZSub(ZPow2(63), I(1))

INT64_MIN == ZNeg(ZPow2(63))

UINT32_MAX == NSub(NPow2(32), <<1>>)

\* the arguments the calls are followed for
MaxSmall == 5

MaxDelta == 2

MaxShift == 3

Modes == {"rhu", "rhd", "rhaz", "rhtz"}

ScaleVals(w) ==
    {I(k) : k \in (0 - MaxSmall)..MaxSmall}
      \cup {ZSub(IF w = 32 THEN INT32_MAX ELSE INT64_MAX, I(k)) : k \in 0..MaxDelta}
      \cup {ZAdd(IF w = 32 THEN INT32_MIN ELSE INT64_MIN, I(k)) : k \in 0..MaxDelta}

ScaleShifts == (1..MaxShift) \cup {32, 63}

ScaleArgs ==
    UNION {[mode : Modes, w : {w}, val : ScaleVals(w), n : ScaleShifts] :
              w \in {32, 64}}

MaxMulSmall == 1

MaxMulDelta == 1

MulVals ==
    {I(k) : k \in (0 - MaxMulSmall)..MaxMulSmall}
      \cup {I(3), I(-3), I(65535), I(65537), I(-65537)}
      \cup {ZSub(INT32_MAX, I(k)) : k \in 0..MaxMulDelta}
      \cup {ZAdd(INT32_MIN, I(k)) : k \in 0..MaxMulDelta}

MulShifts == (1..MaxShift) \cup {31, 32, 33, 62, 63}

MulArgs == [a : MulVals, b : MulVals, n : MulShifts, action : BOOLEAN]

InitCommon ==
    /\ atan = NoAtan
    /\ isq = NoIsq
    /\ hist = NoHist
    /\ ret = NoRet

---------------------------------------------------------------------------
(* A call of one of the fix32_scale_* functions                            *)

InitScale ==
    /\ pc = "scale"
    /\ build \in Builds
    /\ arg \in ScaleArgs
    /\ InitCommon

Scale ==
    /\ pc = "scale"
    /\ LET r == fix32_scale(arg.mode, arg.w, arg.val, arg.n, build)
       IN  /\ pc' = IF r.trap THEN "trap" ELSE "done"
           /\ ret' = r
    /\ UNCHANGED <<build, arg, atan, isq, hist>>

SpecScale == InitScale /\ [][Scale]_vars

---------------------------------------------------------------------------
(* A call of fix32_mul                                                     *)

InitMul ==
    /\ pc = "mul"
    /\ build \in Builds
    /\ arg \in MulArgs
    /\ InitCommon

Mul ==
    /\ pc = "mul"
    /\ LET r == fix32_mul(arg.a, arg.b, arg.n, arg.action, build)
       IN  /\ pc' = IF r.trap THEN "trap" ELSE "done"
           /\ ret' = r
    /\ UNCHANGED <<build, arg, atan, isq, hist>>

SpecMul == InitMul /\ [][Mul]_vars

---------------------------------------------------------------------------
(* fix32_invsqrt, statement by statement                                   *)

\* lines 43-103: the parity correction, the bit scan, a and n
InvsqrtEntry ==
    /\ pc = "invsqrt"
    /\ LET odd      == isq.scale % 2
           val      == parity_val(isq.val, isq.scale)
           scale    == isq.scale + odd
           msb_even == msb_scan(val)
       IN  isq' = [isq EXCEPT !.val = val, !.scale = scale,
                              !.msb_even = msb_even,
                              !.a = mantissa(val, msb_even),
                              !.n = invsqrt_n(msb_even, scale)]
    /\ pc' = "invsqrt_cubic"
    /\ UNCHANGED <<build, arg, atan, hist, ret>>

\* lines 116-138
InvsqrtCubic ==
    /\ pc = "invsqrt_cubic"
    /\ isq' = [isq EXCEPT !.res = cubic(isq.a), !.i = 0]
    /\ pc' = "invsqrt_newton"
    /\ UNCHANGED <<build, arg, atan, hist, ret>>

\* lines 145-160: one pass of the loop
InvsqrtNewton ==
    /\ pc = "invsqrt_newton"
    /\ isq.i < isq.iters
    /\ isq' = [isq EXCEPT !.res = newton_step(isq.a, isq.res), !.i = isq.i + 1]
    /\ UNCHANGED <<pc, build, arg, atan, hist, ret>>

\* lines 166-168: *scale = 30 + n; return res;
InvsqrtReturn ==
    /\ pc = "invsqrt_newton"
    /\ isq.i >= isq.iters
    /\ isq' = [isq EXCEPT !.scale = 30 + isq.n]
    /\ pc' = IF isq.caller = "atan2" THEN "atan2_inv" ELSE "done"
    /\ ret' = IF isq.caller = "atan2" THEN ret
              ELSE [res |-> isq.res, scale |-> 30 + isq.n]
    /\ UNCHANGED <<build, arg, atan, hist>>

Invsqrt == InvsqrtEntry \/ InvsqrtCubic \/ InvsqrtNewton \/ InvsqrtReturn

\* The caller of the sweep: one call, then a second one for a larger val at
\* the same scale, the first call's result kept in hist.
MaxVal == 4

MaxStep == 2

MaxScale == 1

InvsqrtVals ==
    {NFromInt(k) : k \in 1..MaxVal}
      \cup {NAdd(NPow2(30), NFromInt(k)) : k \in 0..MaxStep}
      \cup {NSub(UINT32_MAX, NFromInt(k)) : k \in 0..MaxStep}
      \cup {NPow2(15), NPow2(16), NPow2(31), Hex32(\h4000, \h0005),
            Hex32(\h7FFF, \hFFFF), Hex32(\h99BA, \h0E40), Hex32(\h99C2, \hA2C7),
            Hex32(\h0001, \hE240)}

InvsqrtScales == (0..MaxScale) \cup {30}

InvsqrtIters == {1, FIX32_INVSQRT_NEWTON_ITERS}

\* val + val / 1000
Permille(val) == NAdd(val, NFromInt(NToInt(NShr(val, 3)) \div 125))

SweepNext(val) ==
    {v \in {NAdd(val, NFromInt(k)) : k \in 1..MaxStep}
             \cup {NAdd(Permille(val), NFromInt(k)) : k \in 0..MaxStep}
             \cup {NShl(val, 1), NShl(val, 2)} :
        NLeq(v, UINT32_MAX)}

\* fix32_invsqrt computes in unsigned types and in int without overflow:
\* none of its steps depends on the build
InitInvsqrt ==
    /\ pc = "invsqrt"
    /\ build = "mod64"
    /\ arg \in [val : InvsqrtVals, scale : InvsqrtScales, iters : InvsqrtIters]
    /\ atan = NoAtan
    /\ isq = IsqCall("sweep", arg.val, arg.scale, arg.iters)
    /\ hist = NoHist
    /\ ret = NoRet

Sweep ==
    /\ pc = "done"
    /\ ~hist.active
    /\ hist' = [active |-> TRUE, val |-> arg.val, res |-> ret.res,
                scale |-> ret.scale]
    /\ \E v \in SweepNext(arg.val) :
          /\ arg' = [arg EXCEPT !.val = v]
          /\ isq' = IsqCall("sweep", v, arg.scale, arg.iters)
    /\ pc' = "invsqrt"
    /\ ret' = NoRet
    /\ UNCHANGED <<build, atan>>

SpecInvsqrt == InitInvsqrt /\ [][Invsqrt \/ Sweep]_vars

---------------------------------------------------------------------------
(* A call fix32_atan2(arg[1], arg[2], arg[3]): the definition binds        *)
(* y = arg[1], x = arg[2], scale = arg[3]                                  *)

MaxAtanSmall == 1

AtanVals ==
    {I(k) : k \in (0 - MaxAtanSmall)..MaxAtanSmall}
      \cup {I(65536), I(-65536), I(1048576), I(-1048576), I(-3145728),
            INT32_MAX, ZNeg(INT32_MAX), INT32_MIN}

AtanScales == (0..MaxScale) \cup {28}

InitAtan2 ==
    /\ pc = "atan2"
    /\ build \in Builds
    /\ arg \in {t \in AtanVals \X AtanVals \X AtanScales :
                   t[1] # I(0) \/ t[2] # I(0)}
    /\ InitCommon

\* lines 177-193: the octant, the product and the squares
Atan2Entry ==
    /\ pc = "atan2"
    /\ LET y     == arg[1]
           x     == arg[2]
           abs_x == abs32(x, build)
           abs_y == abs32(y, build)
       IN  /\ atan' = [octant   |-> octant_of(x, y, abs_x.val, abs_y.val),
                       x_y      |-> fix32_mul(x, y, 32, FALSE, build).val,
                       sq_x     |-> fix32_mul(x, x, 32, FALSE, build).val,
                       sq_y     |-> fix32_mul(y, y, 32, FALSE, build).val,
                       sq_scale |-> arg[3] + arg[3] - 32,
                       small    |-> I(0), denum |-> I(0), inv_sqrt |-> I(0),
                       inv      |-> I(0), shift |-> 0, m |-> I(0)]
           /\ pc' = IF abs_x.trap \/ abs_y.trap THEN "trap" ELSE "atan2_small"
    /\ UNCHANGED <<build, arg, isq, hist, ret>>

\* lines 195-208: the product fix32_mul(sq, _28125, 32) of the octant's case
Atan2Small ==
    /\ pc = "atan2_small"
    /\ LET small == atan2_small(atan.octant, atan.sq_x, atan.sq_y, build)
       IN  /\ atan' = [atan EXCEPT !.small = small.val]
           /\ pc' = IF small.trap THEN "trap" ELSE "atan2_denum"
    /\ UNCHANGED <<build, arg, isq, hist, ret>>

\* lines 195-211: the denominator, and the call
\* fix32_invsqrt(denum, &den_scale) with den_scale = sq_scale
Atan2Denum ==
    /\ pc = "atan2_denum"
    /\ LET denum == atan2_denum(atan.octant, atan.sq_x, atan.sq_y,
                                atan.small, build)
       IN  /\ atan' = [atan EXCEPT !.denum = denum.val]
           /\ pc' = IF denum.trap THEN "trap" ELSE "invsqrt"
           /\ isq' = IF denum.trap THEN isq
                     ELSE IsqCall("atan2", ZBits(denum.val, 32), atan.sq_scale,
                                  FIX32_INVSQRT_NEWTON_ITERS)
    /\ UNCHANGED <<build, arg, hist, ret>>

\* lines 211-216: inv_sqrt is the value returned, den_scale the scale
\* fix32_invsqrt left behind
Atan2Inv ==
    /\ pc = "atan2_inv"
    /\ LET inv_sqrt == S32(ZNat(isq.res))
       IN  atan' = [atan EXCEPT
                      !.inv_sqrt = inv_sqrt,
                      !.inv = fix32_mul(inv_sqrt, inv_sqrt, 32, FALSE, build).val,
                      !.shift = atan2_shift(atan.sq_scale, isq.scale)]
    /\ pc' = "atan2_mul"
    /\ UNCHANGED <<build, arg, isq, hist, ret>>

\* lines 221-236: the product fix32_mul(x_y, inv, shift) of each case
Atan2Mul ==
    /\ pc = "atan2_mul"
    /\ LET m == fix32_mul(atan.x_y, atan.inv, atan.shift, FALSE, build)
       IN  /\ atan' = [atan EXCEPT !.m = m.val]
           /\ pc' = IF m.trap THEN "trap" ELSE "atan2_ret"
    /\ UNCHANGED <<build, arg, isq, hist, ret>>

\* lines 218-239: the switch on the octant and the return
Atan2Return ==
    /\ pc = "atan2_ret"
    /\ ret' = atan2_result(atan.octant, atan.m, build)
    /\ pc' = IF ret'.trap THEN "trap" ELSE "done"
    /\ UNCHANGED <<build, arg, atan, isq, hist>>

Atan2 ==
    \/ Atan2Entry
    \/ Atan2Small
    \/ Atan2Denum
    \/ Atan2Inv
    \/ Atan2Mul
    \/ Atan2Return

SpecAtan2 == InitAtan2 /\ [][Atan2 \/ Invsqrt]_vars

---------------------------------------------------------------------------
(* What the documentation says of the results, in exact arithmetic         *)

\* v / 2^n rounded to the nearest integer, a tie resolved by mode: computed
\* on the magnitude, from the quotient and the remainder
RoundNearest(v, n, mode) ==
    LET q    == NShr(v.mag, n)
        r    == NMod2(v.mag, n)
        half == NPow2(n - 1)
        away == IF NLess(half, r) THEN TRUE
                ELSE IF NLess(r, half) THEN FALSE
                ELSE CASE mode = "rhaz" -> TRUE
                       [] mode = "rhtz" -> FALSE
                       [] mode = "rhu"  -> ~v.neg
                       [] mode = "rhd"  -> v.neg
    IN  Z(v.neg, IF away THEN NAdd(q, <<1>>) ELSE q)

\* the index of the highest set bit of v # 0
HighBit(v) == CHOOSE h \in 0..63 : NLeq(NPow2(h), v) /\ NLess(v, NPow2(h + 1))

Returned == pc \in {"done", "trap"}

---------------------------------------------------------------------------
(* fix32_scale_* (SpecScale)                                               *)

\* C1: for every n >= 1 and every value of the 32-bit and of the 64-bit
\* domain, each of the four scale functions returns val / 2^n rounded to
\* the nearest integer, a tie going up (RHU), down (RHD), away from zero
\* (RHAZ) or toward zero (RHTZ).
C1_ScaleNearest ==
    Returned => ret = Ok(RoundNearest(arg.val, arg.n, arg.mode))

\* C1: fix32_scale_rhu_64(INT64_MAX, 1) has returned -2^62: the sum
\* INT64_MAX + (1LL << 0) wrapped
C1_SumOverflows ==
    /\ pc = "done"
    /\ arg = [mode |-> "rhu", w |-> 64, val |-> INT64_MAX, n |-> 1]
    /\ ret.val = ZNeg(ZPow2(62))

---------------------------------------------------------------------------
(* fix32_mul (SpecMul)                                                     *)

\* C2: for 1 <= n <= 63, fix32_mul(a, b, n) returns the low 32 bits, read
\* as two's complement, of the exact product a * b divided by 2^n and
\* rounded to nearest, ties away from zero.
C2_MulExact ==
    Returned =>
        /\ ~ret.trap
        /\ ret.val = S32(RoundNearest(ZMul(arg.a, arg.b), arg.n, "rhaz"))

\* C2: fix32_mul(INT32_MIN, INT32_MIN, 63) has returned -1
C2_MinSquared ==
    /\ pc = "done"
    /\ arg.a = INT32_MIN /\ arg.b = INT32_MIN /\ arg.n = 63
    /\ ret.val = I(-1)

\* C3: compiled with an overflow action, fix32_mul(a, b, n) executes it
\* exactly when the exact product, divided by 2^n and rounded, lies outside
\* [-2^31, 2^31 - 1]; the mask test is true exactly for the values of prod
\* outside that range.
C3_OverflowIff ==
    (Returned /\ arg.action) =>
        /\ ret.overflow <=> ~InS32(RoundNearest(ZMul(arg.a, arg.b), arg.n, "rhaz"))
        /\ ~ret.trap => (OverflowTest(ret.prod) <=> ~InS32(ret.prod))

\* C3: the action has been executed for a = b = 0x7FFFFFFF, prod being
\* outside the 32-bit range
C3_OverflowFired ==
    /\ pc = "done"
    /\ arg.action
    /\ arg.a = INT32_MAX /\ arg.b = INT32_MAX
    /\ ret.overflow
    /\ ~InS32(ret.prod)

---------------------------------------------------------------------------
(* fix32_invsqrt (SpecInvsqrt)                                             *)

\* res / 2^scale_out is within 1/d of 1 / sqrt(val / 2^scale_in), relative
\* to the latter: (d - 1)^2 * 2^e < d^2 * res^2 * val < (d + 1)^2 * 2^e for
\* e = 2 * scale_out + scale_in
WithinOneIn(d, val, scale_in, res, scale_out) ==
    LET e == 2 * scale_out + scale_in
        x == NMul(NFromInt(d * d), NMul(NMul(res, res), val))
    IN  /\ e >= 0
        /\ NLess(NShl(NFromInt((d - 1) * (d - 1)), e), x)
        /\ NLess(x, NShl(NFromInt((d + 1) * (d + 1)), e))

\* C4: for val # 0 and an even input scale, the value returned, read at the
\* scale returned, is within 0.01 % of 1 / sqrt(val / 2^scale) after the two
\* Newton iterations of the library, and within 1 % after a single one.
C4_RelativeError ==
    (pc = "done" /\ arg.scale % 2 = 0) =>
        WithinOneIn(IF arg.iters = 1 THEN 100 ELSE 10000,
                    arg.val, arg.scale, ret.res, ret.scale)

\* C4: the call has returned for the mantissa of the largest error of two
\* iterations
C4_WorstMantissa ==
    /\ pc = "done"
    /\ arg = [val |-> Hex32(\h99BA, \h0E40), scale |-> 0,
              iters |-> FIX32_INVSQRT_NEWTON_ITERS]
    /\ ret.scale = 30 + 15
    /\ ret.res # << >>

\* the real value of the second call's result is below the first call's:
\* res / 2^scale < hist.res / 2^hist.scale
SecondBelowFirst ==
    NLess(NShl(ret.res, hist.scale), NShl(hist.res, ret.scale))

\* C7: at a fixed input scale, for any two non-zero inputs val1 < val2 the
\* real value of fix32_invsqrt(val2) is strictly smaller than that of
\* fix32_invsqrt(val1), both read at the scales returned (also for val and
\* val + 1, and across a change of the even MSB index).
C7_StrictlyDecreasing ==
    (pc = "done" /\ hist.active /\ arg.iters = FIX32_INVSQRT_NEWTON_ITERS) =>
        SecondBelowFirst

\* C7, amended: at a fixed even input scale, for non-zero inputs val1 < val2
\* with val2 more than 0.1 % above val1 (1000 * (val2 - val1) > val1), the
\* real value of fix32_invsqrt(val2) is strictly smaller than that of
\* fix32_invsqrt(val1), both read at the scales returned.
C7_DecreasingBeyondPermille ==
    (/\ pc = "done" /\ hist.active /\ arg.iters = FIX32_INVSQRT_NEWTON_ITERS
     /\ arg.scale % 2 = 0
     /\ NLess(hist.val, NMul(NFromInt(1000), NSub(arg.val, hist.val)))) =>
        SecondBelowFirst

\* C7: two calls more than 0.1 % apart have returned, the second with
\* another even MSB index, hence another scale
C7_AcrossMsbChange ==
    /\ pc = "done" /\ hist.active /\ arg.iters = FIX32_INVSQRT_NEWTON_ITERS
    /\ arg.scale % 2 = 0
    /\ NLess(hist.val, NMul(NFromInt(1000), NSub(arg.val, hist.val)))
    /\ NLess(NSub(arg.val, hist.val), hist.val)
    /\ ret.scale # hist.scale
    /\ SecondBelowFirst

\* C8: for every val # 0 and every input scale, odd or even, the mantissa
\* a = val << (30 - msb_even) computed after the parity correction satisfies
\* 2^30 <= a < 2^32.
C8_MantissaRange ==
    (pc = "invsqrt_cubic" /\ arg.val # << >>) =>
        NLeq(NPow2(30), isq.a) /\ NLess(isq.a, NPow2(32))

\* C8: for val = 0xFFFFFFFF and an odd scale, val + 1 has wrapped: the
\* corrected val and the mantissa are 0
C8_ParityWraps ==
    /\ pc = "invsqrt_cubic"
    /\ arg.val = UINT32_MAX /\ arg.scale = 1
    /\ isq.val = << >> /\ isq.a = << >>

\* C10: for every val # 0 the bit scan yields the index h of the highest
\* set bit of val rounded up to the nearest even index: h when h is even,
\* h + 1 when h is odd.
C10_RoundedUp ==
    (pc = "invsqrt_cubic" /\ isq.val # << >>) =>
        isq.msb_even = HighBit(isq.val) + (HighBit(isq.val) % 2)

\* C10, amended: for every val # 0 the bit scan yields the index h of the
\* highest set bit of val rounded down to the nearest even index: h when h
\* is even, h - 1 when h is odd.
C10_RoundedDown ==
    (pc = "invsqrt_cubic" /\ isq.val # << >>) =>
        isq.msb_even = HighBit(isq.val) - (HighBit(isq.val) % 2)

\* C10: val = 2, whose highest set bit has the odd index 1, has been scanned
C10_OddIndex ==
    /\ pc = "invsqrt_cubic"
    /\ isq.val = <<2>>
    /\ HighBit(isq.val) = 1
    /\ isq.msb_even = 0

---------------------------------------------------------------------------
(* fix32_atan2 (SpecAtan2)                                                 *)

Positive(z) == ~z.neg /\ z # I(0)

\* C5: for any scale and any m >= 1, the raw value 1 included, fix32_atan2
\* returns 0 for y = 0, x = m, 0x1921FB54 for y = m, x = 0, and -0x1921FB54
\* for y = -m, x = 0.
C5_AxisValues ==
    Returned =>
        LET y == arg[1]
            x == arg[2]
        IN  /\ (y = I(0) /\ Positive(x)) => ret = Ok(I(0))
            /\ (Positive(y) /\ x = I(0)) => ret = Ok(pi_half)
            /\ (y.neg /\ x = I(0)) => ret = Ok(ZNeg(pi_half))

\* C5: on a build that computes 1LL << -1 from 32-bit halves,
\* fix32_atan2(0, 1, 0) has returned INT32_MIN
C5_RawOne ==
    /\ pc = "done"
    /\ build = "mod32"
    /\ arg = <<I(0), I(1), 0>>
    /\ ret.val = INT32_MIN

\* C6: in fix32_atan2(p, q, scale) the first argument is the x coordinate
\* and the second the y coordinate: p > 0, q = 0 yields 0, and p = 0, q > 0
\* yields 0x1921FB54.
C6_FirstIsX ==
    Returned =>
        LET p == arg[1]
            q == arg[2]
        IN  /\ (Positive(p) /\ q = I(0)) => ret = Ok(I(0))
            /\ (p = I(0) /\ Positive(q)) => ret = Ok(pi_half)

\* C6: fix32_atan2(2^20, 0, 28), a call without any shift by zero, has
\* returned 0x1921FB54 on every build
C6_FirstIsY ==
    /\ pc = "done"
    /\ arg = <<I(1048576), I(0), 28>>
    /\ atan.shift >= 1
    /\ ret = Ok(pi_half)

\* C9: for (x, y) # (0, 0) and every scale, the denominator passed to
\* fix32_invsqrt is non-zero and non-negative, and the shift passed to the
\* final fix32_mul(x_y, inv, shift) is at least 1.
C9_HelperDomains ==
    /\ (pc = "invsqrt" /\ isq.caller = "atan2") =>
           isq.val # << >> /\ ~atan.denum.neg
    /\ pc = "atan2_mul" => atan.shift >= 1

\* C9: fix32_atan2(1, 0, 0) is calling fix32_invsqrt with the denominator 0
C9_ZeroDenominator ==
    /\ pc = "invsqrt" /\ isq.caller = "atan2"
    /\ arg = <<I(1), I(0), 0>>
    /\ isq.val = << >>

=============================================================================
